---- MODULE Spec2Model ----
(***************************************************************************)
(* Model of the in-memory TF-IDF search engine of json-search              *)
(* (src/src/search.rs, Database) and of the ingestion loop of              *)
(* src/src/main.rs.                                                        *)
(*                                                                         *)
(* Text is a tuple of one-character strings, a token is such a tuple too.  *)
(* A score is the exact rational num/den in units of 1/10000 (the natural  *)
(* logarithm is tabulated to four decimals); f32 rounding is not modelled, *)
(* the only f32 special value that the code can produce, NaN from 0/0, is  *)
(* carried by the nan flag.                                                *)
(***************************************************************************)
EXTENDS Integers, Sequences, FiniteSets, TLC

VARIABLES entries, tokens, tf, cached_results, now, computed, built, ret

\* entries, tokens, tf, cached_results: the fields of Database
\* now:      the reading of Instant::now(), in seconds
\* computed: history, for each query the time and the list of the last search
\*           that ran the scorer for it
\* built:    history, the number of entries at the last tokenize_entries that
\*           returned Ok, -1 before the first
\* ret:      the last call and what it returned
vars == <<entries, tokens, tf, cached_results, now, computed, built, ret>>

(***************************************************************************)
(* Bounds of the model.                                                    *)
(***************************************************************************)
\* Spec: the indexer and the scorer on up to MaxDocs documents, at one instant
MaxDocs == 2
IndexCached == 1
\* SpecCache: the query cache over MaxTicks steps of the clock
\* the clock advances in steps of TickStep seconds
TickStep == 30
CacheDocs == 2
MaxCached == 2
MaxTicks == 2

(***************************************************************************)
(* serde_json::Value                                                       *)
(***************************************************************************)
Null == [tag |-> "Null"]
Bool(b) == [tag |-> "Bool", b |-> b]
PosInt(hi, lo) == [tag |-> "Number", kind |-> "PosInt", hi |-> hi, lo |-> lo, frac |-> <<>>]
NegInt(m) == [tag |-> "Number", kind |-> "NegInt", hi |-> 0, lo |-> m, frac |-> <<>>]
Float(i, frac) == [tag |-> "Number", kind |-> "Float", hi |-> 0, lo |-> i, frac |-> frac]
String(s) == [tag |-> "String", s |-> s]
Array(arr) == [tag |-> "Array", arr |-> arr]
Object(map) == [tag |-> "Object", map |-> map]

None == [some |-> FALSE]
Some(v) == [some |-> TRUE, v |-> v]

(***************************************************************************)
(* Decimal text of numbers (Number::to_string, bool::to_string).           *)
(***************************************************************************)
DigitChar == <<"0", "1", "2", "3", "4", "5", "6", "7", "8", "9">>

RECURSIVE NatDigitsLE(_)
NatDigitsLE(n) == IF n < 10 THEN <<n>> ELSE <<n % 10>> \o NatDigitsLE(n \div 10)

\* 2^32 = 4294967296, least significant digit first
TwoPow32LE == <<6, 9, 2, 7, 6, 9, 4, 9, 2, 4>>

RECURSIVE MulAddLE(_, _, _)
MulAddLE(ds, m, carry) ==
    IF ds = <<>> THEN (IF carry = 0 THEN <<>> ELSE NatDigitsLE(carry))
    ELSE LET x == Head(ds) * m + carry
         IN  <<x % 10>> \o MulAddLE(Tail(ds), m, x \div 10)

DigitsToText(le) == [i \in 1..Len(le) |-> DigitChar[le[Len(le) + 1 - i] + 1]]

\* text of the u64 hi * 2^32 + lo
U64ToString(hi, lo) ==
    IF hi = 0 THEN DigitsToText(NatDigitsLE(lo))
    ELSE DigitsToText(MulAddLE(TwoPow32LE, hi, lo))

NumberToString(n) ==
    CASE n.kind = "PosInt" -> U64ToString(n.hi, n.lo)
      [] n.kind = "NegInt" -> <<"-">> \o U64ToString(0, n.lo)
      [] n.kind = "Float" -> U64ToString(0, n.lo) \o <<".">> \o n.frac

BoolToString(b) == IF b THEN <<"t", "r", "u", "e">> ELSE <<"f", "a", "l", "s", "e">>

(***************************************************************************)
(* Value::get("id") and Value::as_u64                                      *)
(***************************************************************************)
RECURSIVE MapGet(_, _)
MapGet(map, key) ==
    IF map = <<>> THEN None
    ELSE IF Head(map)[1] = key THEN Some(Head(map)[2])
    ELSE MapGet(Tail(map), key)

ValueGet(val, key) == IF val.tag = "Object" THEN MapGet(val.map, key) ELSE None

\* the u64 is kept as the pair (hi, lo) = (id div 2^32, id mod 2^32)
as_u64(val) ==
    IF val.tag = "Number" /\ val.kind = "PosInt"
    THEN Some([hi |-> val.hi, lo |-> val.lo])
    ELSE None

\* id as u32
AsU32(id) == id.lo

\* id as u64, for a u32 id
U32AsU64(k) == [hi |-> 0, lo |-> k]

(***************************************************************************)
(* tokenizer::Lexer and to_ascii_uppercase                                 *)
(***************************************************************************)
Letters == {"a", "b", "c", "d", "e", "f", "g", "j", "l", "r", "s", "t", "u",
            "A", "B", "C", "D", "E", "F", "G", "J", "L", "R", "S", "T", "U"}

IsWordChar(c) == c \in Letters \/ c \in {DigitChar[i] : i \in 1..10}

RECURSIVE LexFrom(_, _, _)
LexFrom(s, i, cur) ==
    IF i > Len(s) THEN (IF cur = <<>> THEN <<>> ELSE <<cur>>)
    ELSE IF IsWordChar(s[i]) THEN LexFrom(s, i + 1, Append(cur, s[i]))
    ELSE (IF cur = <<>> THEN <<>> ELSE <<cur>>) \o LexFrom(s, i + 1, <<>>)

Lexer(s) == LexFrom(s, 1, <<>>)

UpperChar(c) ==
    CASE c = "a" -> "A" [] c = "b" -> "B" [] c = "c" -> "C" [] c = "d" -> "D"
      [] c = "e" -> "E" [] c = "f" -> "F" [] c = "g" -> "G" [] c = "j" -> "J"
      [] c = "l" -> "L" [] c = "r" -> "R" [] c = "s" -> "S" [] c = "t" -> "T"
      [] c = "u" -> "U" [] OTHER -> c

to_ascii_uppercase(t) == [i \in 1..Len(t) |-> UpperChar(t[i])]

\* Lexer::new(text).into_iter().map(to_ascii_uppercase).collect()
Tokenize(text) == LET ts == Lexer(text) IN [i \in 1..Len(ts) |-> to_ascii_uppercase(ts[i])]

(***************************************************************************)
(* Database::get_tokens: the text fragments of a value, None for Null.     *)
(***************************************************************************)
RECURSIVE get_tokens(_), CollectTokens(_)
CollectTokens(vals) ==
    IF vals = <<>> THEN <<>>
    ELSE LET r == get_tokens(Head(vals))
         IN  (IF r.some THEN r.v ELSE <<>>) \o CollectTokens(Tail(vals))

get_tokens(val) ==
    CASE val.tag = "Object" -> Some(CollectTokens([i \in 1..Len(val.map) |-> val.map[i][2]]))
      [] val.tag = "Array" -> Some(CollectTokens(val.arr))
      [] val.tag = "String" -> Some(<<val.s>>)
      [] val.tag = "Number" -> Some(<<NumberToString(val)>>)
      [] val.tag = "Bool" -> Some(<<BoolToString(val.b)>>)
      [] val.tag = "Null" -> None

RECURSIVE Flatten(_)
Flatten(ss) == IF ss = <<>> THEN <<>> ELSE Head(ss) \o Flatten(Tail(ss))

\* the token sequence of an entry (lines 115-126), given its fragments
EntryTokens(frags) == Flatten([i \in 1..Len(frags) |-> Tokenize(frags[i])])

\* the term-frequency table of a token sequence (lines 142-146)
CountTokens(toks) ==
    [t \in {toks[i] : i \in 1..Len(toks)} |-> Cardinality({i \in 1..Len(toks) : toks[i] = t})]

(***************************************************************************)
(* Database::tokenize_entries, from entry i on: the (tokens, tf) maps      *)
(* after the loop, which stops at the first `?` that fails.                *)
(***************************************************************************)
\* tokenize_entries had it skipped an entry without a u64 id instead of failing
RECURSIVE TokenizeFromSkipping(_, _, _, _)
TokenizeFromSkipping(ents, i, toks, tfm) ==
    IF i > Len(ents) THEN [ok |-> TRUE, err |-> "", tokens |-> toks, tf |-> tfm]
    ELSE LET entry == ents[i]
             frags == get_tokens(entry)
             entry_id_key == ValueGet(entry, "id")
             id == as_u64(entry_id_key.v)
         IN  IF ~frags.some
             THEN [ok |-> FALSE, err |-> "Failed to get tokens", tokens |-> toks, tf |-> tfm]
             ELSE IF ~entry_id_key.some \/ ~id.some
             THEN TokenizeFromSkipping(ents, i + 1, toks, tfm)
             ELSE LET entry_tokens == EntryTokens(frags.v)
                      key == AsU32(id.v)
                  IN  TokenizeFromSkipping(ents, i + 1,
                                           (key :> entry_tokens) @@ toks,
                                           (key :> CountTokens(entry_tokens)) @@ tfm)

RECURSIVE TokenizeFrom(_, _, _, _)
TokenizeFrom(ents, i, toks, tfm) ==
    IF i > Len(ents) THEN [ok |-> TRUE, err |-> "", tokens |-> toks, tf |-> tfm]
    ELSE LET entry == ents[i]
             frags == get_tokens(entry)
             entry_id_key == ValueGet(entry, "id")
             id == as_u64(entry_id_key.v)
         IN  IF ~frags.some
             THEN [ok |-> FALSE, err |-> "Failed to get tokens", tokens |-> toks, tf |-> tfm]
             ELSE IF ~entry_id_key.some
             THEN [ok |-> FALSE, err |-> "Failed to get id", tokens |-> toks, tf |-> tfm]
             ELSE IF ~id.some
             THEN [ok |-> FALSE, err |-> "Failed to convert id to u64", tokens |-> toks, tf |-> tfm]
             ELSE LET entry_tokens == EntryTokens(frags.v)
                      key == AsU32(id.v)
                  IN  TokenizeFrom(ents, i + 1,
                                   (key :> entry_tokens) @@ toks,
                                   (key :> CountTokens(entry_tokens)) @@ tfm)

(***************************************************************************)
(* Scorer                                                                  *)
(***************************************************************************)
\* ln(k) in units of 1/10000, k = 1..8
LnE4 == <<0, 6931, 10986, 13863, 16094, 17918, 19459, 20794>>

\* ln(0) = -inf
NegInf == -1000000

Ln(k) == IF k = 0 THEN NegInf ELSE LnE4[k]

RECURSIVE SumCounts(_, _)
SumCounts(table, ks) ==
    IF ks = {} THEN 0
    ELSE LET k == CHOOSE x \in ks : TRUE
         IN  table[k] + SumCounts(table, ks \ {k})

\* (top, bottom) of the quotient top / bottom
get_tf(tfm, key, token) ==
    [top |-> IF token \in DOMAIN tfm[key] THEN tfm[key][token] ELSE 0,
     bottom |-> SumCounts(tfm[key], DOMAIN tfm[key])]

DocFreq(tfm, token) ==
    LET c == Cardinality({k \in DOMAIN tfm : token \in DOMAIN tfm[k]})
    IN  IF c < 1 THEN 1 ELSE c

\* get_idf had the quotient been df / n
get_idf_inverted(ents, tfm, token) == Ln(DocFreq(tfm, token)) - Ln(Len(ents))

\* ln(n / df) = ln(n) - ln(df)
get_idf(ents, tfm, token) == Ln(Len(ents)) - Ln(DocFreq(tfm, token))

\* tf * idf; 0 / 0 is NaN
calculate_tf_idf(ents, tfm, key, token) ==
    LET q == get_tf(tfm, key, token)
        idf == get_idf(ents, tfm, token)
    IN  IF q.bottom = 0 THEN [nan |-> TRUE, num |-> 0, den |-> 1]
        ELSE [nan |-> FALSE, num |-> q.top * idf, den |-> q.bottom]

Zero == [nan |-> FALSE, num |-> 0, den |-> 1]

AddScore(a, b) ==
    IF a.nan \/ b.nan THEN [nan |-> TRUE, num |-> 0, den |-> 1]
    ELSE IF a.den = b.den THEN [nan |-> FALSE, num |-> a.num + b.num, den |-> a.den]
    ELSE [nan |-> FALSE, num |-> a.num * b.den + b.num * a.den, den |-> a.den * b.den]

\* a > b, a < b and a = b of partial_cmp; all false when one side is NaN
ScoreGt(a, b) == ~a.nan /\ ~b.nan /\ a.num * b.den > b.num * a.den
ScoreEq(a, b) == ~a.nan /\ ~b.nan /\ a.num * b.den = b.num * a.den

\* tokens.iter().map(|t| calculate_tf_idf(id, t)).sum()
RECURSIVE Relevance(_, _, _, _)
Relevance(ents, tfm, key, toks) ==
    IF toks = <<>> THEN Zero
    ELSE AddScore(calculate_tf_idf(ents, tfm, key, Head(toks)),
                  Relevance(ents, tfm, key, Tail(toks)))

(***************************************************************************)
(* Database::search, lines 186-218                                         *)
(***************************************************************************)
\* the orders in which a HashMap can yield the keys S
KeyOrders(S) ==
    {o \in [1..Cardinality(S) -> S] : \A i, j \in 1..Cardinality(S) : o[i] = o[j] => i = j}

\* Scored had the filter been score >= 0.0
ScoredNonNegative(ents, tfm, toks, order) ==
    LET all == [i \in 1..Len(order) |->
                   [id |-> order[i], score |-> Relevance(ents, tfm, order[i], toks)]]
    IN  SelectSeq(all, LAMBDA r : ~ScoreGt(Zero, r.score) /\ ~r.score.nan)

\* lines 191-206: (id, score) of the keys in iteration order, score > 0.0 only
Scored(ents, tfm, toks, order) ==
    LET all == [i \in 1..Len(order) |->
                   [id |-> order[i], score |-> Relevance(ents, tfm, order[i], toks)]]
    IN  SelectSeq(all, LAMBDA r : ScoreGt(r.score, Zero))

\* result.sort_by(|(_, a), (_, b)| b.partial_cmp(a).unwrap()): stable, descending
\* InsertSorted had the comparator been a.partial_cmp(b)
RECURSIVE InsertSortedAscending(_, _)
InsertSortedAscending(sorted, x) ==
    IF sorted = <<>> THEN <<x>>
    ELSE IF ScoreGt(Head(sorted).score, x.score) THEN <<x>> \o sorted
    ELSE <<Head(sorted)>> \o InsertSortedAscending(Tail(sorted), x)

RECURSIVE InsertSorted(_, _)
InsertSorted(sorted, x) ==
    IF sorted = <<>> THEN <<x>>
    ELSE IF ScoreGt(x.score, Head(sorted).score) THEN <<x>> \o sorted
    ELSE <<Head(sorted)>> \o InsertSorted(Tail(sorted), x)

RECURSIVE SortByScore(_)
SortByScore(rs) ==
    IF rs = <<>> THEN <<>>
    ELSE InsertSorted(SortByScore(SubSeq(rs, 1, Len(rs) - 1)), rs[Len(rs)])

\* partial_cmp(..).unwrap() panics on a NaN
SortPanics(rs) == Len(rs) >= 2 /\ \E i \in 1..Len(rs) : rs[i].score.nan

\* lines 211-216: the first entry whose id equals id as u64; the closure and
\* the final unwrap panic on an entry without a u64 id and on no match
RECURSIVE FindEntry(_, _, _)
FindEntry(ents, i, id) ==
    IF i > Len(ents) THEN [panic |-> TRUE]
    ELSE LET k == ValueGet(ents[i], "id")
         IN  IF ~k.some THEN [panic |-> TRUE]
             ELSE IF ~as_u64(k.v).some THEN [panic |-> TRUE]
             ELSE IF as_u64(k.v).v = U32AsU64(id) THEN [panic |-> FALSE, entry |-> ents[i]]
             ELSE FindEntry(ents, i + 1, id)

\* the outcome of an uncached search
SearchCompute(ents, tfm, query, order) ==
    LET toks == Tokenize(query)
        result == Scored(ents, tfm, toks, order)
        sorted == SortByScore(result)
        found == [i \in 1..Len(sorted) |-> FindEntry(ents, 1, sorted[i].id)]
    IN  IF SortPanics(result) \/ \E i \in 1..Len(sorted) : found[i].panic
        THEN [status |-> "panic", list |-> <<>>]
        ELSE [status |-> "ok",
              list |-> [i \in 1..Len(sorted) |->
                           [entry |-> found[i].entry, score |-> sorted[i].score]]]

(***************************************************************************)
(* Inputs                                                                  *)
(***************************************************************************)
Doc(id, title) == Object(<< <<"id", id>>, <<"title", String(title)>> >>)

\* {id:1, title:"g s c"}, {id:2, title:"d j"}, {id:3, title:"g j s"}: the
\* three documents of the end-to-end scenario, one letter per word
Doc1 == Doc(PosInt(0, 1), <<"g", " ", "s", " ", "c">>)
Doc2 == Doc(PosInt(0, 2), <<"d", " ", "j">>)
Doc3 == Doc(PosInt(0, 3), <<"g", " ", "j", " ", "s">>)
\* no id field
DocNoId == Object(<< <<"title", String(<<"g">>)>> >>)
\* an id that is a string
DocStrId == Doc(String(<<"x">>), <<"j">>)
\* id 2^32 + 1
DocBigId == Doc(PosInt(1, 1), <<"j">>)

\* no word in the content
DocNoText == Doc(PosInt(0, 4), <<"!">>)

EntryPool == {Doc1, Doc2, Doc3, DocNoId, DocStrId, DocBigId, DocNoText, Null}

\* a row of assets/data.csv
Record(name, author) ==
    [name |-> name, author |-> author, user_rating |-> Float(4, <<"7">>),
     reviews |-> 5, price |-> Float(8, <<"0">>), year |-> 2016]

RecordPool == {Record(<<"g", " ", "s">>, <<"j", "j">>)}

QueryPool == {<<>>, <<"!">>, <<"g", " ", "s">>, <<"c", " ", "j">>}

\* Duration::from_secs(60)
TTL == 60


(***************************************************************************)
(* State machine                                                           *)
(***************************************************************************)
Ret(op, query, status, list, scored) ==
    [op |-> op, query |-> query, status |-> status, list |-> list, scored |-> scored]

\* Database::new
Init ==
    /\ entries = <<>>
    /\ tokens = <<>>
    /\ tf = <<>>
    /\ cached_results = <<>>
    /\ now = 0
    /\ computed = <<>>
    /\ built = -1
    /\ ret = Ret("new", <<>>, "ok", <<>>, FALSE)

Running == ret.status # "panic"

\* Database::add
add(entry) ==
    /\ Running
    /\ entries' = Append(entries, entry)
    /\ ret' = Ret("add", <<>>, "ok", <<>>, FALSE)
    /\ UNCHANGED <<tokens, tf, cached_results, now, computed, built>>

\* serde_json::to_value(entry) of an Entry: an object of its seven fields
EntryToValue(id, record) ==
    Object(<< <<"author", String(record.author)>>,
              <<"id", PosInt(0, id)>>,
              <<"name", String(record.name)>>,
              <<"price", record.price>>,
              <<"reviews", PosInt(0, record.reviews)>>,
              <<"user_rating", record.user_rating>>,
              <<"year", PosInt(0, record.year)>> >>)

\* main, the body of the for_each over the csv rows
main_ingest(record) ==
    /\ Running
    /\ entries' = Append(entries, EntryToValue(Len(entries) + 1, record))
    /\ ret' = Ret("add", <<>>, "ok", <<>>, FALSE)
    /\ UNCHANGED <<tokens, tf, cached_results, now, computed, built>>

\* tokenize_entries had it dropped the cached results of the old index
tokenize_entries_clearing_cache ==
    /\ Running
    /\ LET r == TokenizeFrom(entries, 1, tokens, tf)
       IN  /\ tokens' = r.tokens
           /\ tf' = r.tf
           /\ built' = IF r.ok THEN Len(entries) ELSE built
           /\ ret' = Ret("tokenize_entries", <<>>, IF r.ok THEN "ok" ELSE "err", <<>>, FALSE)
    /\ cached_results' = <<>>
    /\ UNCHANGED <<entries, now, computed>>

\* Database::tokenize_entries (buildIndex)
tokenize_entries ==
    /\ Running
    /\ LET r == TokenizeFrom(entries, 1, tokens, tf)
       IN  /\ tokens' = r.tokens
           /\ tf' = r.tf
           /\ built' = IF r.ok THEN Len(entries) ELSE built
           /\ ret' = Ret("tokenize_entries", <<>>, IF r.ok THEN "ok" ELSE "err", <<>>, FALSE)
    /\ UNCHANGED <<entries, cached_results, now, computed>>

\* CacheHit had the comparison been expiration >= now
CacheHitInclusive(query) ==
    /\ query \in DOMAIN cached_results
    /\ cached_results[query].expiration >= now

\* lines 180-181
CacheHit(query) ==
    /\ query \in DOMAIN cached_results
    /\ cached_results[query].expiration > now

\* CacheInsert had it kept an entry that is already there (entry().or_insert)
CacheInsertIfAbsent(query, list) ==
    cached_results @@ (query :> [result |-> list, expiration |-> now + TTL])

\* CacheInsert had the key been the normalized query, its tokens joined by " "
RECURSIVE JoinTokens(_)
JoinTokens(toks) ==
    IF toks = <<>> THEN <<>>
    ELSE IF Len(toks) = 1 THEN toks[1]
    ELSE toks[1] \o <<" ">> \o JoinTokens(Tail(toks))

CacheInsertNormalized(query, list) ==
    (JoinTokens(Tokenize(query)) :> [result |-> list, expiration |-> now + TTL])
        @@ cached_results

\* lines 220-226: cached_results.insert(query.to_string(), CachedResult {..})
CacheInsert(query, list) ==
    (query :> [result |-> list, expiration |-> now + TTL]) @@ cached_results

\* Database::search; order is the iteration order of the keys of tf. The two
\* readings of Instant::now() of one call fall in the same step of the clock.
\* a search whose cache hit renews the entry's expiration instant
search_sliding(query, order) ==
    /\ Running
    /\ IF CacheHit(query)
       THEN /\ ret' = Ret("search", query, "ok", cached_results[query].result, FALSE)
            /\ cached_results' =
                   (query :> [result |-> cached_results[query].result,
                              expiration |-> now + TTL]) @@ cached_results
            /\ UNCHANGED <<entries, tokens, tf, now, computed, built>>
       ELSE LET r == SearchCompute(entries, tf, query, order)
            IN  IF r.status = "panic"
                THEN /\ ret' = Ret("search", query, "panic", <<>>, TRUE)
                     /\ UNCHANGED <<entries, tokens, tf, cached_results, now, computed, built>>
                ELSE /\ cached_results' = CacheInsert(query, r.list)
                     /\ computed' = (query :> [at |-> now, list |-> r.list]) @@ computed
                     /\ ret' = Ret("search", query, "ok", r.list, TRUE)
                     /\ UNCHANGED <<entries, tokens, tf, now, built>>

search(query, order) ==
    /\ Running
    /\ IF CacheHit(query)
       THEN /\ ret' = Ret("search", query, "ok", cached_results[query].result, FALSE)
            /\ UNCHANGED <<entries, tokens, tf, cached_results, now, computed, built>>
       ELSE LET r == SearchCompute(entries, tf, query, order)
            IN  IF r.status = "panic"
                THEN /\ ret' = Ret("search", query, "panic", <<>>, TRUE)
                     /\ UNCHANGED <<entries, tokens, tf, cached_results, now, computed, built>>
                ELSE /\ cached_results' = CacheInsert(query, r.list)
                     /\ computed' = (query :> [at |-> now, list |-> r.list]) @@ computed
                     /\ ret' = Ret("search", query, "ok", r.list, TRUE)
                     /\ UNCHANGED <<entries, tokens, tf, now, built>>

\* time passes
Tick ==
    /\ Running
    /\ now' = now + TickStep
    /\ UNCHANGED <<entries, tokens, tf, cached_results, computed, built, ret>>

\* the iteration orders a search can meet; a cache hit does not iterate
Orders(query) ==
    IF CacheHit(query) THEN {<<>>} ELSE KeyOrders(DOMAIN tf)

\* the bounds: at most maxDocs documents, maxCached cached queries, and the
\* clock stops after maxTicks steps
CanAdd(maxDocs) == Len(entries) < maxDocs
CanSearch(query, maxCached) ==
    query \in DOMAIN cached_results \/ Cardinality(DOMAIN cached_results) < maxCached
CanTick(maxTicks) == now + TickStep <= maxTicks * TickStep

Next ==
    \/ \E entry \in EntryPool : CanAdd(MaxDocs) /\ add(entry)
    \/ \E record \in RecordPool : CanAdd(MaxDocs) /\ main_ingest(record)
    \/ tokenize_entries
    \/ \E query \in QueryPool : \E order \in Orders(query) :
           CanSearch(query, IndexCached) /\ search(query, order)

Spec == Init /\ [][Next]_vars

CacheEntryPool == {Doc1, Doc2}

CacheQueryPool == {<<"g", " ", "s">>, <<"G", " ", "s">>}

NextCache ==
    \/ \E entry \in CacheEntryPool : CanAdd(CacheDocs) /\ add(entry)
    \/ tokenize_entries
    \/ \E query \in CacheQueryPool : \E order \in Orders(query) :
           CanSearch(query, MaxCached) /\ search(query, order)
    \/ CanTick(MaxTicks) /\ Tick

SpecCache == Init /\ [][NextCache]_vars

(***************************************************************************)
(* Properties                                                              *)
(***************************************************************************)
HasU64Id(e) == ValueGet(e, "id").some /\ as_u64(ValueGet(e, "id").v).some

EntryId(e) == as_u64(ValueGet(e, "id").v).v

IdLess(a, b) == a.hi < b.hi \/ (a.hi = b.hi /\ a.lo < b.lo)

TokenSet(toks) == {toks[i] : i \in 1..Len(toks)}

\* the tokens of a document's own content
DocTokens(e) == TokenSet(EntryTokens(get_tokens(e).v))

SearchReturned == ret.op = "search" /\ ret.status = "ok"

\* C1: a search made while the engine has no documents, or has documents but
\* no tokenize_entries has returned Ok yet, returns an error.
C1_SearchBeforeIndexIsError ==
    (ret.op = "search" /\ (entries = <<>> \/ built = -1)) => ret.status = "err"

\* C2: in the list a search returns, two adjacent documents of equal score are
\* in ascending order of document id.
C2_TiesAscendingId ==
    SearchReturned =>
        \A i \in 1..(Len(ret.list) - 1) :
            ScoreEq(ret.list[i].score, ret.list[i + 1].score)
                => IdLess(EntryId(ret.list[i].entry), EntryId(ret.list[i + 1].entry))

\* C3: in the list every successful search returns, no result has a greater
\* score than the one before it.
C3_ScoresDescending ==
    SearchReturned =>
        \A i \in 1..(Len(ret.list) - 1) :
            ~ScoreGt(ret.list[i + 1].score, ret.list[i].score)

\* a computed list of at least two results of different scores
C3_Witness ==
    /\ SearchReturned
    /\ ret.scored
    /\ Len(ret.list) >= 2
    /\ ScoreGt(ret.list[1].score, ret.list[2].score)

\* a step that is a call of search(q)
SearchStep(q) == \E order \in Orders(q) : search(q, order)

\* C4: a search(q) made less than 60 seconds after the last search(q) that ran
\* the scorer returns that search's list and does not run the scorer; a
\* search(q) made at or after the stored expiration instant runs the scorer.
C4_CachedWithinTtl ==
    [][\A q \in CacheQueryPool :
          SearchStep(q) =>
              /\ (q \in DOMAIN computed /\ now < computed[q].at + 60)
                     => (~ret'.scored /\ ret'.list = computed[q].list)
              /\ (q \in DOMAIN cached_results /\ now >= cached_results[q].expiration)
                     => (ret'.scored /\ computed'[q].at = now)]_vars

\* a search answered from the cache, later than the search that computed the
\* list it returns
C4_Witness ==
    /\ SearchReturned
    /\ ~ret.scored
    /\ ret.list # <<>>
    /\ now > computed[ret.query].at
    /\ now < computed[ret.query].at + 60

\* C5: a tokenize_entries that fails leaves every term-frequency table as it
\* was.
C5_FailedBuildKeepsIndex ==
    [][(ret'.op = "tokenize_entries" /\ ret'.status = "err") => tf' = tf]_vars

\* C6: once a tokenize_entries has returned Ok, every document a search returns
\* was in the collection at the last tokenize_entries that returned Ok.
C6_AddedDocsNotSearchable ==
    (SearchReturned /\ built >= 0) =>
        \A i \in 1..Len(ret.list) : \E j \in 1..built : entries[j] = ret.list[i].entry

\* C7: tokenize_entries returns Ok only when every document of the collection
\* has an id that is an unsigned integer.
C7_MalformedFailsBuild ==
    (ret.op = "tokenize_entries" /\ ret.status = "ok")
        => \A i \in 1..Len(entries) : HasU64Id(entries[i])

\* a failed tokenize_entries of a collection whose malformed document comes
\* after a well-formed one
C7_Witness ==
    /\ ret.op = "tokenize_entries"
    /\ ret.status = "err"
    /\ Len(entries) >= 2
    /\ HasU64Id(entries[1])
    /\ ~HasU64Id(entries[2])

\* C8: after a tokenize_entries that returned Ok, the ids that have a
\* term-frequency table are exactly the ids of the documents of the collection.
C8_TablesMatchCollection ==
    (ret.op = "tokenize_entries" /\ ret.status = "ok")
        => {U32AsU64(k) : k \in DOMAIN tf} = {EntryId(entries[i]) : i \in 1..Len(entries)}

\* the documents of the collection that have a table and a relevance > 0
Relevant(toks) ==
    {entries[j] : j \in {i \in 1..Len(entries) :
        /\ HasU64Id(entries[i])
        /\ AsU32(EntryId(entries[i])) \in DOMAIN tf
        /\ ScoreGt(Relevance(entries, tf, AsU32(EntryId(entries[i])), toks), Zero)}}

\* C9: an uncached search on an indexed engine returns exactly the indexed
\* documents of relevance > 0, and none that shares no token with the query.
C9_ExactlyPositiveRelevance ==
    (SearchReturned /\ ret.scored /\ built >= 0) =>
        /\ {ret.list[i].entry : i \in 1..Len(ret.list)} = Relevant(Tokenize(ret.query))
        /\ \A i \in 1..Len(ret.list) :
               DocTokens(ret.list[i].entry) \cap TokenSet(Tokenize(ret.query)) # {}

\* C10: on a non-empty indexed collection a search whose query has no token
\* succeeds and returns the empty list.
C10_NoTokenQueryIsEmpty ==
    (ret.op = "search" /\ Tokenize(ret.query) = <<>> /\ entries # <<>> /\ built >= 1)
        => (ret.status = "ok" /\ ret.list = <<>>)

\* an uncached search of an all-punctuation query on an indexed collection
C10_Witness ==
    /\ SearchReturned
    /\ ret.scored
    /\ ret.query = <<"!">>
    /\ built >= 1
    /\ DOMAIN tf # {}

\* C11: the ids of the documents of the collection are 1..N in insertion
\* order.
C11_IdsDense ==
    \A i \in 1..Len(entries) :
        HasU64Id(entries[i]) /\ EntryId(entries[i]) = U32AsU64(i)

\* C12: add and tokenize_entries leave every cache entry unchanged, and a
\* search(q) made before the expiration of the entry of q returns the stored
\* list, whatever the index has become.
C12_CacheSurvivesRebuild ==
    [][/\ ret'.op \in {"add", "tokenize_entries"} => cached_results' = cached_results
       /\ \A q \in CacheQueryPool :
              (SearchStep(q) /\ q \in DOMAIN cached_results
                   /\ now < cached_results[q].expiration)
                  => ret'.list = cached_results[q].result]_vars

\* a search answered from the cache after a rebuild, with a list that no
\* computation on the present index gives
C12_Witness ==
    /\ SearchReturned
    /\ ~ret.scored
    /\ built = Len(entries)
    /\ built > 0
    /\ \A order \in KeyOrders(DOMAIN tf) :
           SearchCompute(entries, tf, ret.query, order).list # ret.list

\* the tokens of the queries
QueryTokens == UNION {TokenSet(Tokenize(q)) : q \in QueryPool}

\* C13: every score the scorer computes is finite and not negative: the
\* token count of an indexed document is never 0 and N / df is never below 1.
C13_ScoresFiniteNonNegative ==
    \A k \in DOMAIN tf : \A t \in QueryTokens :
        /\ get_tf(tf, k, t).bottom > 0
        /\ Len(entries) >= DocFreq(tf, t)
        /\ ~calculate_tf_idf(entries, tf, k, t).nan
        /\ calculate_tf_idf(entries, tf, k, t).num >= 0

\* the scorer ran for a token of the index while a document without a word
\* in its content is indexed
C13_Witness ==
    /\ SearchReturned
    /\ ret.scored
    /\ \E t \in TokenSet(Tokenize(ret.query)) : \E k \in DOMAIN tf : t \in DOMAIN tf[k]
    /\ \E k \in DOMAIN tf : get_tf(tf, k, <<"G">>).bottom = 1

\* C14: no call of search or tokenize_entries panics.
C14_NoPanic == ret.status # "panic"

\* C15: a search(q) that finds no entry for q, or an expired one, leaves under
\* q the list it returns with the expiration instant of the call plus 60 s.
C15_MissStoresResult ==
    [][\A q \in CacheQueryPool :
          (/\ SearchStep(q)
           /\ q \notin DOMAIN cached_results \/ cached_results[q].expiration <= now
           /\ ret'.status = "ok")
              => /\ q \in DOMAIN cached_results'
                 /\ cached_results'[q] = [result |-> ret'.list, expiration |-> now + 60]]_vars

\* a computed list stored at a time when an earlier entry can have expired
C15_Witness ==
    /\ SearchReturned
    /\ ret.scored
    /\ now >= 60
    /\ ret.list # <<>>
    /\ cached_results[ret.query] = [result |-> ret.list, expiration |-> now + 60]

\* C16: once the index is built, an add changes the relevance of no indexed
\* document for no query.
C16_AddKeepsScores ==
    [][(ret'.op = "add" /\ entries' # entries /\ built >= 0)
          => \A k \in DOMAIN tf : \A q \in QueryPool :
                 ScoreEq(Relevance(entries', tf', k, Tokenize(q)),
                         Relevance(entries, tf, k, Tokenize(q)))]_vars

\* the tokens of a value's own content, none for Null
OwnTokens(e) ==
    IF get_tokens(e).some THEN TokenSet(EntryTokens(get_tokens(e).v)) ELSE {}

\* C17: an uncached search whose query tokens all occur in every document of
\* the collection returns the empty list.
C17_UniversalTokensScoreNothing ==
    (/\ SearchReturned
     /\ ret.scored
     /\ entries # <<>>
     /\ \A t \in TokenSet(Tokenize(ret.query)) :
            \A i \in 1..Len(entries) : t \in OwnTokens(entries[i]))
        => ret.list = <<>>

\* C18: a search(q) leaves the cache entry of every other string as it was and
\* adds none under another string, and it runs the scorer when q itself has no
\* entry, also when a string of the same tokens has one.
C18_RawQueryKey ==
    [][\A q \in CacheQueryPool :
          SearchStep(q) =>
              /\ DOMAIN cached_results' \ {q} = DOMAIN cached_results \ {q}
              /\ \A q2 \in DOMAIN cached_results \ {q} :
                     cached_results'[q2] = cached_results[q2]
              /\ q \notin DOMAIN cached_results => ret'.scored]_vars

\* the scorer ran for a query while another string of the same tokens had a
\* live entry, and the two entries differ
C18_Witness ==
    /\ SearchReturned
    /\ ret.scored
    /\ \E q2 \in DOMAIN cached_results \ {ret.query} :
           /\ Tokenize(q2) = Tokenize(ret.query)
           /\ cached_results[q2].expiration > now
           /\ cached_results[q2] # cached_results[ret.query]

\* C19: every (document, score) pair an uncached search returns carries the
\* document whose own tokens are the table the score was computed from.
C19_ScoreFromOwnTokens ==
    (SearchReturned /\ ret.scored) =>
        \A i \in 1..Len(ret.list) :
            LET e == ret.list[i].entry
            IN  /\ HasU64Id(e)
                /\ AsU32(EntryId(e)) \in DOMAIN tf
                /\ tf[AsU32(EntryId(e))] = CountTokens(EntryTokens(get_tokens(e).v))

\* C20: a search(q) answered from the cache changes no field of the engine,
\* its entry's expiration instant included, and every list a search(q)
\* returns is the one the scorer computed for q at most 60 seconds before.
C20_HitChangesNothing ==
    [][\A q \in CacheQueryPool :
          SearchStep(q) =>
              /\ ~ret'.scored =>
                     UNCHANGED <<entries, tokens, tf, cached_results>>
              /\ ret'.status = "ok" =>
                     /\ q \in DOMAIN computed'
                     /\ ret'.list = computed'[q].list
                     /\ now - computed'[q].at <= 60
                     /\ cached_results'[q].expiration = computed'[q].at + 60]_vars

\* a search was answered from the cache at a later instant than the one the
\* list was computed at, and the entry still expires 60 s after that instant
C20_Witness ==
    /\ SearchReturned
    /\ ~ret.scored
    /\ now > computed[ret.query].at
    /\ cached_results[ret.query].expiration = computed[ret.query].at + 60

====
